---- MODULE Spec2Model ----
(***************************************************************************)
(* Batch report orchestrator of the grading centre (App.tsx) together with *)
(* the grading service client (services/geminiService).                    *)
(*                                                                         *)
(* The React state of App (formData, results, isLoading, progress, error)  *)
(* is the state of the model.  handleGenerateReport is an async handler:   *)
(* it is modelled as a sequential process whose position is pc.  The       *)
(* positions "grade" and "format" are the two awaited service round trips; *)
(* only there (and at "idle") can another handler run, because JavaScript  *)
(* runs every synchronous segment to completion.  The positions "loop" and *)
(* "call" are inside a synchronous segment: they expose the intermediate   *)
(* values of the queued state updates to the invariants, nothing else can  *)
(* run there.                                                              *)
(*                                                                         *)
(* Strings are modelled as follows.  The three Korean progress messages    *)
(* of App.tsx:35, :51 and :59 are "waiting", "analyzing" and "formatting". *)
(* A text returned by the service is a sequence of tokens: "fence" (three  *)
(* backticks), "html", "nl" (white space) and other tokens standing for    *)
(* ordinary content.                                                       *)
(***************************************************************************)
EXTENDS Naturals, Integers, Sequences, FiniteSets, TLC

VARIABLES
    formData,           \* useState<FormData>            App.tsx:24
    results,            \* useState<ReportResult[]>      App.tsx:25
    isLoading,          \* useState(false)               App.tsx:26
    progress,           \* useState({current, total})    App.tsx:27
    error,              \* useState<string | null>       App.tsx:28
    pc,                 \* position of handleGenerateReport
    studentsToProcess,  \* App.tsx:33, the roster captured by the running batch
    commonData,         \* App.tsx:37-42
    i,                  \* loop index of App.tsx:44 (0-based, as in the code)
    generationDate,     \* App.tsx:49
    rawReport,          \* App.tsx:53
    now,                \* the clock read by new Date(): round trips completed
                        \* since the running batch was started
    stage,              \* history: per roster position, what the running batch
                        \* invoked and what the service answered
    identicalRerun,     \* history: the running (or last) batch was started on the
                        \* roster and exam context of the batch completed before it
    search,             \* handleSearchCriteria (App.tsx:93-112) as started by
                        \* InputForm's handleSearch: its position, the arguments it
                        \* captured, the search button's DOM flag and isSearching
    searchOutcome       \* history: the last answer to a criteria search and what
                        \* searchScoringCriteria made of it

vars == << formData, results, isLoading, progress, error, pc, studentsToProcess,
           commonData, i, generationDate, rawReport, now, stage, identicalRerun,
           search, searchOutcome >>

searchVars == << search, searchOutcome >>

batchVars == << results, isLoading, progress, error, pc, studentsToProcess,
                commonData, i, generationDate, rawReport, now, stage, identicalRerun >>

----------------------------------------------------------------------------
(* Bounds and input sets *)

MaxStudents == 2

\* Student rows a caller can put into the form.  Ids are crypto.randomUUID()
\* values (InputForm.tsx:198), so two rows of a roster never share an id.
\* Files are opaque handles; "unreadable" is a handle FileReader cannot read.
StudentPool ==
    { [id |-> "u1", name |-> "Kim", email |-> "kim@x", solutionFiles |-> << "sol1" >>,
       reportTemplate |-> ""],
      [id |-> "u2", name |-> "Lee", email |-> "lee@x", solutionFiles |-> << >>,
       reportTemplate |-> "tmpl"],
      [id |-> "u3", name |-> "Kim", email |-> "kim3@x", solutionFiles |-> << "unreadable" >>,
       reportTemplate |-> ""] }

Rosters ==
    UNION { { r \in [1..n -> StudentPool] :
                \A a, b \in 1..n : a # b => r[a].id # r[b].id } : n \in 0..MaxStudents }

MaterialSets == { << >>, << "exam1" >> }

ExamInfos == { "", "E1" }

\* The partial form updates the form's handlers pass to onFormChange.
FormChanges ==
    { [students |-> r] : r \in Rosters }
      \cup { [examMaterials |-> m] : m \in MaterialSets }
      \cup { [examInfo |-> e] : e \in ExamInfos }

\* constants.ts: initialFormData (the model preference falls back to the default)
initialFormData ==
    [ examInfo |-> "", scoringCriteria |-> << >>, examMaterials |-> << >>,
      students |-> << >>, model |-> "gemini-2.5-flash" ]

----------------------------------------------------------------------------
(* Optional values: << >> is undefined, << v >> is the value v *)

Undefined == << >>
Some(v) == << v >>
IsPresent(o) == o # << >>

----------------------------------------------------------------------------
(* What the external service can answer to one generateContent call *)

Answer(kind, text, message) == [kind |-> kind, text |-> text, message |-> message]

\* response.text is a string
Text(t) == Answer("text", t, "")
\* response.text is undefined (no text part in the response)
NoText == Answer("undefined", << >>, "")
\* the call rejects with an Error
Rejects(m) == Answer("error", << >>, m)
\* the call rejects with a value that is not an Error (a string, a plain object)
RejectsWith(v) == Answer("value", << >>, v)

GradeAnswers == { Text(<< "report" >>), Rejects("transport") }

FormatAnswers ==
    { Text(<< "fence", "html", "nl", "div", "nl", "fence" >>),
      NoText,
      Rejects("transport") }

\* Every text of at most MaxTextLen tokens the formatting call can answer with
MaxTextLen == 4

Tokens == { "fence", "html", "nl", "div" }

Texts == UNION { [1..n -> Tokens] : n \in 0..MaxTextLen }

\* The answers explored when one student is followed through both stages
AllGradeAnswers == GradeAnswers \cup { NoText, RejectsWith("quota") }

AllFormatAnswers ==
    FormatAnswers \cup { RejectsWith("quota") } \cup { Text(t) : t \in Texts }

\* What the service can answer to the criteria search: the answer to the call
\* and the grounding chunks of its first candidate.  A chunk is the web.uri it
\* carries, "" standing for a chunk without one.
SearchResponse(answer, chunks) == [ answer |-> answer, chunks |-> chunks ]

MaxChunks == 3

Uris == { "", "uriA", "uriB" }

ChunkLists == UNION { [1..n -> Uris] : n \in 0..MaxChunks }

SearchTexts == { << >>, << "nl" >>, << "criteria" >>, << "nl", "criteria", "nl" >> }

AllSearchResponses ==
    { SearchResponse(Text(t), c) : t \in SearchTexts, c \in ChunkLists }
      \cup { SearchResponse(NoText, c) : c \in { << >>, << "uriA" >> } }
      \cup { SearchResponse(Rejects("transport"), << >>),
             SearchResponse(RejectsWith("quota"), << >>) }

\* The answers explored while a batch runs next to the search
SearchResponses ==
    { SearchResponse(Text(<< "criteria" >>), << >>),
      SearchResponse(Rejects("transport"), << >>) }

\* Form edits that put a single student row and the exam documents into the form
StageFormChanges ==
    { [students |-> << s >>] : s \in StudentPool } \cup { [examMaterials |-> << "exam1" >>] }

----------------------------------------------------------------------------
(* services/geminiService: the pure parts *)

\* fileToGenerativePart: reader.onloadend fires on success and on failure; a
\* failed read leaves reader.result null and the promise resolves with ''.
fileToGenerativePart(file) ==
    [ mimeType |-> "type/" \o file,
      data |-> IF file = "unreadable" THEN "" ELSE "base64/" \o file ]

\* files.map(file => fileToGenerativePart(file)), the inlineData parts of a request
InlineParts(files) == [ k \in 1..Len(files) |-> fileToGenerativePart(files[k]) ]

\* gradeSolutionAndGenerateFeedback, the guard in front of everything else
MissingInputMessage == "missing required input"

\* Mutant: the guard forgets the shared exam documents.
MissingSolutionsOnly(common, studentData) ==
    Len(studentData.solutionFiles) = 0

\* Mutant: the guard forgets the student's solution documents.
MissingExamMaterialsOnly(common, studentData) ==
    Len(common.examMaterials) = 0

MissingRequiredInput(common, studentData) ==
    Len(common.examMaterials) = 0 \/ Len(studentData.solutionFiles) = 0

\* String.prototype.trim on a token sequence
RECURSIVE TrimStart(_)
TrimStart(t) ==
    IF t # << >> /\ Head(t) = "nl" THEN TrimStart(Tail(t)) ELSE t

RECURSIVE TrimEnd(_)
TrimEnd(t) ==
    IF t # << >> /\ t[Len(t)] = "nl" THEN TrimEnd(SubSeq(t, 1, Len(t) - 1)) ELSE t

Trim(t) == TrimEnd(TrimStart(t))

\* html.startsWith('```html'): the text begins with the fence and the tag
StartsWithHtmlFence(t) == Len(t) >= 2 /\ t[1] = "fence" /\ t[2] = "html"

\* html.endsWith('```')
EndsWithFence(t) == Len(t) >= 1 /\ t[Len(t)] = "fence"

\* formatReportToHtml, from `let html = response.text` to the return
StripFences(text) ==
    LET h1 == IF StartsWithHtmlFence(text) THEN SubSeq(text, 3, Len(text)) ELSE text
        h2 == IF EndsWithFence(h1) THEN SubSeq(h1, 1, Len(h1) - 1) ELSE h1
    IN  Trim(h2)

\* groundingChunks.map(chunk => chunk.web?.uri).filter(uri => uri)
RECURSIVE ChunkUris(_)
ChunkUris(chunks) ==
    IF chunks = << >> THEN << >>
    ELSE IF Head(chunks) = "" THEN ChunkUris(Tail(chunks))
    ELSE << Head(chunks) >> \o ChunkUris(Tail(chunks))

\* Mutant: the URIs are listed as they come, repetitions included.
Repeated(urls) == urls

\* [...new Set(urls)]: a Set keeps the insertion order of the first occurrences
RECURSIVE UniqueUrls(_)
UniqueUrls(urls) ==
    IF urls = << >> THEN << >>
    ELSE LET front == UniqueUrls(SubSeq(urls, 1, Len(urls) - 1))
             last == urls[Len(urls)]
         IN  IF \E n \in 1..Len(front) : front[n] = last THEN front
             ELSE Append(front, last)

\* The references section: the token "references" is the fixed heading, each
\* following token is one `- url` line.
References(chunks) ==
    LET uniqueUrls == UniqueUrls(ChunkUris(chunks))
    IN  IF uniqueUrls = << >> THEN << >> ELSE << "references" >> \o uniqueUrls

----------------------------------------------------------------------------
(* Thrown values and the catch block of handleGenerateReport *)

Thrown(isError, message) == [isError |-> isError, message |-> message]

\* What `html.startsWith` throws when response.text is undefined
TypeErrorMessage == "Cannot read properties of undefined (reading 'startsWith')"

\* The fallback text of App.tsx:85
UnknownErrorMessage == "unknown error"

\* Mutant: the message is read off whatever was thrown.
CaughtMessageOfAnything(e) == e.message

\* `e instanceof Error ? e.message : <fallback>`
CaughtMessage(e) == IF e.isError THEN e.message ELSE UnknownErrorMessage

\* What a rejected generateContent call throws into the awaiting handler
Rejection(answer) == Thrown(answer.kind = "error", answer.message)

\* What `response.text.trim()` throws when response.text is undefined
TrimTypeErrorMessage == "Cannot read properties of undefined (reading 'trim')"

\* searchScoringCriteria from the answer of generateContent to the return
searchScoringCriteria(response) ==
    CASE response.answer.kind \in { "error", "value" } ->
             [ kind |-> "threw", text |-> << >>, thrown |-> Rejection(response.answer) ]
      [] response.answer.kind = "undefined" ->
             [ kind |-> "threw", text |-> << >>, thrown |-> Thrown(TRUE, TrimTypeErrorMessage) ]
      [] OTHER ->
             [ kind |-> "returned",
               text |-> Trim(response.answer.text) \o References(response.chunks),
               thrown |-> Thrown(FALSE, "") ]

\* App.tsx:106-107, the text handed to alert()
SearchAlert(e) ==
    "search error: " \o (IF e.isError THEN e.message ELSE "search failed")

\* Mutant: a failed search clears the criteria text of the form.
CriteriaClearedOnFailure(prev, outcome) ==
    [ prev EXCEPT !.scoringCriteria = outcome.text ]

\* App.tsx:101-102: the form after the awaited search; a failure leaves it alone
CriteriaAfterSearch(prev, outcome) ==
    IF outcome.kind = "returned" THEN [ prev EXCEPT !.scoringCriteria = outcome.text ]
    ELSE prev

----------------------------------------------------------------------------
(* The ledger updates: setResults(prev => prev.map(r => r.studentId === id ? u(r) : r)) *)

\* App.tsx:35
SeedRecord(s) ==
    [ studentId |-> s.id, studentName |-> s.name, status |-> "loading",
      progressMessage |-> Some("waiting"), data |-> Undefined, error |-> Undefined ]

\* Mutant: a student already in the ledger keeps the record of the previous batch.
SeedResultsKeepingOld(students) ==
    [ k \in 1..Len(students) |->
        IF \E j \in 1..Len(results) : results[j].studentId = students[k].id
        THEN results[CHOOSE j \in 1..Len(results) : results[j].studentId = students[k].id]
        ELSE SeedRecord(students[k]) ]

SeedResults(students) == [ k \in 1..Len(students) |-> SeedRecord(students[k]) ]

\* App.tsx:51 and :59
WithNote(r, note) == [ r EXCEPT !.progressMessage = Some(note) ]

\* Mutant: the progress message is not cleared on completion.
WithDoneKeepsNote(r, reportData) ==
    [ r EXCEPT !.status = "done", !.data = Some(reportData) ]

\* App.tsx:81
WithDone(r, reportData) ==
    [ r EXCEPT !.status = "done", !.data = Some(reportData), !.progressMessage = Undefined ]

\* Mutant: the error is stored but the status is left at 'loading'.
WithErrorStatusKept(r, message) ==
    [ r EXCEPT !.error = Some(message), !.progressMessage = Undefined ]

\* App.tsx:86
WithError(r, message) ==
    [ r EXCEPT !.status = "error", !.error = Some(message), !.progressMessage = Undefined ]

\* Mutant: the progress message is written to every record.
SetNoteAll(prev, id, note) ==
    [ k \in 1..Len(prev) |-> WithNote(prev[k], note) ]

SetNote(prev, id, note) ==
    [ k \in 1..Len(prev) |->
        IF prev[k].studentId = id THEN WithNote(prev[k], note) ELSE prev[k] ]

SetDone(prev, id, reportData) ==
    [ k \in 1..Len(prev) |->
        IF prev[k].studentId = id THEN WithDone(prev[k], reportData) ELSE prev[k] ]

\* Mutant: the catch block marks every record of the ledger as failed.
SetErrorAll(prev, id, message) ==
    [ k \in 1..Len(prev) |-> WithError(prev[k], message) ]

\* Mutant: the catch block looks the record up by name instead of by id.
SetErrorWrongKey(prev, id, message) ==
    [ k \in 1..Len(prev) |->
        IF prev[k].studentName = id THEN WithError(prev[k], message) ELSE prev[k] ]

SetError(prev, id, message) ==
    [ k \in 1..Len(prev) |->
        IF prev[k].studentId = id THEN WithError(prev[k], message) ELSE prev[k] ]

----------------------------------------------------------------------------
(* History of the running batch, one entry per roster position *)

NoStage ==
    [ gradeCalls |-> 0, encoded |-> 0, gradeRequests |-> 0, gradeParts |-> << >>,
      formatCalls |-> 0, formatRequests |-> 0, gradeAnswer |-> Undefined,
      formatAnswer |-> Undefined, formatInput |-> Undefined,
      gradeArgs |-> Undefined, formatArgs |-> Undefined ]

\* No criteria search is in flight and none was made
NoSearch ==
    [ pc |-> "idle", examInfo |-> "", model |-> "", buttonDisabled |-> FALSE,
      isSearching |-> FALSE ]

NoOutcome == [ response |-> Undefined, kind |-> "none", text |-> << >>, message |-> "" ]

----------------------------------------------------------------------------
(* State *)

Init ==
    /\ formData = initialFormData
    /\ results = << >>
    /\ isLoading = FALSE
    /\ progress = [current |-> 0, total |-> 0]
    /\ error = "null"
    /\ pc = "idle"
    /\ studentsToProcess = << >>
    /\ commonData = [ examInfo |-> "", scoringCriteria |-> << >>, model |-> "gemini-2.5-flash",
                      examMaterials |-> << >> ]
    /\ i = 0
    /\ generationDate = 0
    /\ rawReport = Undefined
    /\ now = 0
    /\ stage = << >>
    /\ identicalRerun = FALSE
    /\ search = NoSearch
    /\ searchOutcome = NoOutcome

\* Another handler can run only while no synchronous segment is executing.
Yielded == pc \in { "idle", "grade", "format" }

\* Mutant: the running batch sees the edited roster of the form.
handleFormChangeSeenByBatch(newFormData) ==
    /\ Yielded
    /\ formData' = [ f \in DOMAIN formData |->
                       IF f \in DOMAIN newFormData THEN newFormData[f] ELSE formData[f] ]
    /\ studentsToProcess' = IF pc = "idle" THEN studentsToProcess ELSE formData'.students
    /\ UNCHANGED << results, isLoading, progress, error, pc, commonData, i, generationDate,
                    rawReport, now, stage, identicalRerun >>
    /\ UNCHANGED searchVars

\* App.tsx:114-124, setFormData(prev => ({...prev, ...newFormData}))
handleFormChange(newFormData) ==
    /\ Yielded
    /\ formData' = [ f \in DOMAIN formData |->
                       IF f \in DOMAIN newFormData THEN newFormData[f] ELSE formData[f] ]
    /\ UNCHANGED batchVars
    /\ UNCHANGED searchVars

\* Mutant: the start control stays enabled while a batch runs.
StartControlAlwaysEnabled == TRUE

\* InputForm.tsx:499, the start control is disabled while isLoading
StartControlEnabled == ~isLoading

\* App.tsx:31-42, started from the start control
handleGenerateReport ==
    /\ Yielded
    /\ StartControlEnabled
    /\ isLoading' = TRUE
    /\ error' = "null"
    /\ studentsToProcess' = formData.students
    /\ progress' = [current |-> 0, total |-> Len(formData.students)]
    /\ results' = SeedResults(formData.students)
    /\ commonData' = [ examInfo |-> formData.examInfo,
                       scoringCriteria |-> formData.scoringCriteria,
                       model |-> formData.model,
                       examMaterials |-> formData.examMaterials ]
    /\ i' = 0
    /\ now' = 0
    /\ generationDate' = 0
    /\ rawReport' = Undefined
    /\ stage' = [ k \in 1..Len(formData.students) |-> NoStage ]
    /\ pc' = "loop"
    /\ identicalRerun' = ( /\ Len(studentsToProcess) > 0
                           /\ formData.students = studentsToProcess
                           /\ commonData' = commonData )
    /\ UNCHANGED formData
    /\ UNCHANGED searchVars

\* InputForm.tsx:264-265 with App.tsx:93-100 up to the awaited call.  The search
\* button is enabled under the condition of InputForm.tsx:289.
handleSearchCriteria ==
    /\ Yielded
    /\ formData.examInfo # ""
    /\ ~search.isSearching
    /\ ~isLoading
    /\ ~search.buttonDisabled
    /\ search' = [ pc |-> "await", examInfo |-> formData.examInfo, model |-> formData.model,
                   buttonDisabled |-> TRUE, isSearching |-> TRUE ]
    /\ error' = "null"
    /\ UNCHANGED << formData, results, isLoading, progress, pc, studentsToProcess,
                    commonData, i, generationDate, rawReport, now, stage, identicalRerun,
                    searchOutcome >>

\* The search round trip ends: searchScoringCriteria :51-68, App.tsx:101-111 and
\* InputForm.tsx:267
SearchReturn(response) ==
    /\ Yielded
    /\ search.pc = "await"
    /\ LET outcome == searchScoringCriteria(response)
       IN  /\ formData' = CriteriaAfterSearch(formData, outcome)
           /\ searchOutcome' =
                  [ response |-> Some(response), kind |-> outcome.kind,
                    text |-> outcome.text,
                    message |-> IF outcome.kind = "threw" THEN SearchAlert(outcome.thrown)
                                ELSE "" ]
    /\ search' = [ search EXCEPT !.pc = "idle", !.buttonDisabled = FALSE,
                                 !.isSearching = FALSE ]
    /\ UNCHANGED batchVars

student == studentsToProcess[i + 1]

\* Mutant: the loop leaves out the last roster entry.
LoopStopsEarly == i + 1 < Len(studentsToProcess)

\* App.tsx:44, the loop condition
LoopContinues == i < Len(studentsToProcess)

\* Mutant: the 0-based loop index is published as it is.
ProgressAtZeroBased(prev, idx) == [ prev EXCEPT !.current = idx ]

\* App.tsx:46, setProgress(prev => ({...prev, current: i + 1}))
ProgressAt(prev, idx) == [ prev EXCEPT !.current = idx + 1 ]

\* App.tsx:44-51
BeginStudent ==
    /\ pc = "loop"
    /\ LoopContinues
    /\ progress' = ProgressAt(progress, i)
    /\ generationDate' = now
    /\ results' = SetNote(results, student.id, "analyzing")
    /\ pc' = "call"
    /\ UNCHANGED << formData, isLoading, error, studentsToProcess, commonData, i,
                    rawReport, now, stage, identicalRerun >>
    /\ UNCHANGED searchVars

\* Mutant: a failure ends the loop instead of moving on to the next student.
CatchAborts(e) ==
    /\ results' = SetError(results, student.id, CaughtMessage(e))
    /\ i' = Len(studentsToProcess)
    /\ pc' = "loop"

\* Mutant: a failure sends the same student through the grading stage again.
CatchRetries(e) ==
    /\ results' = SetNote(results, student.id, "analyzing")
    /\ i' = i
    /\ pc' = "call"

\* Mutant: no try/catch, the failure leaves the handler and nothing after it runs.
CatchRethrows(e) ==
    /\ results' = results
    /\ i' = i
    /\ pc' = "idle"

\* App.tsx:83-87 followed by the loop's i++
Catch(e) ==
    /\ results' = SetError(results, student.id, CaughtMessage(e))
    /\ i' = i + 1
    /\ pc' = "loop"

\* App.tsx:53-57, the two arguments of gradeSolutionAndGenerateFeedback
GradeArgs ==
    [ common |-> commonData,
      studentData |-> [ name |-> student.name, solutionFiles |-> student.solutionFiles,
                        reportTemplate |-> student.reportTemplate ] ]

\* App.tsx:62-70, the arguments of formatReportToHtml after the raw report
FormatArgs ==
    [ context |-> [ examInfo |-> commonData.examInfo, model |-> commonData.model ],
      studentName |-> student.name, generationDate |-> generationDate ]

\* App.tsx:53-57 with geminiService gradeSolutionAndGenerateFeedback up to the
\* generateContent call: the guard, the encoding of every document, the request
GradeCall ==
    /\ pc = "call"
    /\ IF MissingRequiredInput(commonData, student)
       THEN /\ Catch(Thrown(TRUE, MissingInputMessage))
            /\ stage' = [ stage EXCEPT ![i + 1].gradeCalls = @ + 1,
                                       ![i + 1].gradeArgs = Some(GradeArgs) ]
       ELSE /\ stage' = [ stage EXCEPT ![i + 1].gradeCalls = @ + 1,
                                       ![i + 1].gradeArgs = Some(GradeArgs),
                                       ![i + 1].encoded =
                                           @ + Len(commonData.examMaterials)
                                             + Len(student.solutionFiles),
                                       ![i + 1].gradeRequests = @ + 1,
                                       ![i + 1].gradeParts =
                                           InlineParts(commonData.examMaterials)
                                             \o InlineParts(student.solutionFiles) ]
            /\ pc' = "grade"
            /\ UNCHANGED << results, i >>
    /\ UNCHANGED << formData, isLoading, progress, error, studentsToProcess, commonData,
                    generationDate, rawReport, now, identicalRerun >>
    /\ UNCHANGED searchVars

\* The grading round trip ends: App.tsx:53 resumes, then :59-70 up to the
\* generateContent call of formatReportToHtml
GradeReturn(answer) ==
    /\ pc = "grade"
    /\ now' = now + 1
    /\ IF answer.kind \in { "error", "value" }
       THEN /\ Catch(Rejection(answer))
            /\ stage' = [ stage EXCEPT ![i + 1].gradeAnswer = Some(answer) ]
            /\ UNCHANGED rawReport
       ELSE /\ rawReport' = IF answer.kind = "text" THEN Some(answer.text) ELSE Undefined
            /\ results' = SetNote(results, student.id, "formatting")
            /\ stage' = [ stage EXCEPT ![i + 1].gradeAnswer = Some(answer),
                                       ![i + 1].formatCalls = @ + 1,
                                       ![i + 1].formatRequests = @ + 1,
                                       ![i + 1].formatInput = Some(rawReport'),
                                       ![i + 1].formatArgs = Some(FormatArgs) ]
            /\ pc' = "format"
            /\ UNCHANGED i
    /\ UNCHANGED << formData, isLoading, progress, error, studentsToProcess, commonData,
                    generationDate, identicalRerun >>
    /\ UNCHANGED searchVars

\* Mutant: the result is assembled with the name and contact of the first row.
ReportDataOfFirstRow(htmlReport) ==
    [ htmlContent |-> htmlReport, studentEmail |-> studentsToProcess[1].email,
      studentName |-> studentsToProcess[1].name, examInfo |-> commonData.examInfo,
      generationDate |-> generationDate ]

\* Mutant: the timestamp is read again when the result is assembled.
ReportDataFreshDate(htmlReport) ==
    [ htmlContent |-> htmlReport, studentEmail |-> student.email,
      studentName |-> student.name, examInfo |-> commonData.examInfo,
      generationDate |-> now + 1 ]

\* App.tsx:72-79
ReportData(htmlReport) ==
    [ htmlContent |-> htmlReport, studentEmail |-> student.email,
      studentName |-> student.name, examInfo |-> commonData.examInfo,
      generationDate |-> generationDate ]

\* The formatting round trip ends: formatReportToHtml :200-208, then App.tsx:72-81
FormatReturn(answer) ==
    /\ pc = "format"
    /\ now' = now + 1
    /\ stage' = [ stage EXCEPT ![i + 1].formatAnswer = Some(answer) ]
    /\ CASE answer.kind \in { "error", "value" } -> Catch(Rejection(answer))
         [] answer.kind = "undefined" -> Catch(Thrown(TRUE, TypeErrorMessage))
         [] OTHER ->
              /\ results' = SetDone(results, student.id, ReportData(StripFences(answer.text)))
              /\ i' = i + 1
              /\ pc' = "loop"
    /\ UNCHANGED << formData, isLoading, progress, error, studentsToProcess, commonData,
                    generationDate, rawReport, identicalRerun >>
    /\ UNCHANGED searchVars

\* Mutant: the roster of the form is emptied when the batch ends.
FinishClearsRoster ==
    /\ pc = "loop"
    /\ ~LoopContinues
    /\ isLoading' = FALSE
    /\ pc' = "idle"
    /\ formData' = [ formData EXCEPT !.students = << >> ]
    /\ UNCHANGED << results, progress, error, studentsToProcess, commonData, i,
                    generationDate, rawReport, now, stage, identicalRerun >>
    /\ UNCHANGED searchVars

\* App.tsx:44 (loop exit) and :90
Finish ==
    /\ pc = "loop"
    /\ ~LoopContinues
    /\ isLoading' = FALSE
    /\ pc' = "idle"
    /\ UNCHANGED << formData, results, progress, error, studentsToProcess, commonData, i,
                    generationDate, rawReport, now, stage, identicalRerun >>
    /\ UNCHANGED searchVars

BatchStep ==
    \/ BeginStudent
    \/ GradeCall
    \/ \E answer \in GradeAnswers : GradeReturn(answer)
    \/ \E answer \in FormatAnswers : FormatReturn(answer)
    \/ Finish

Next ==
    \/ \E newFormData \in FormChanges : handleFormChange(newFormData)
    \/ handleGenerateReport
    \/ BatchStep

Spec == Init /\ [][Next]_vars

\* One student followed through both stages, against every answer of the service
StageNext ==
    \/ \E newFormData \in StageFormChanges : handleFormChange(newFormData)
    \/ handleGenerateReport
    \/ BeginStudent
    \/ GradeCall
    \/ \E answer \in AllGradeAnswers : GradeReturn(answer)
    \/ \E answer \in AllFormatAnswers : FormatReturn(answer)
    \/ Finish

StageSpec == Init /\ [][StageNext]_vars

\* Two students followed through both stages; the service answers each call
\* with one of two texts, so that a text can be told from another student's.
CarryGradeAnswers == { Text(<< "report" >>), Text(<< "report2" >>), NoText }

CarryFormatAnswers ==
    { Text(<< "fence", "html", "nl", "div", "nl", "fence" >>), Text(<< "div2" >>) }

CarryFormChanges ==
    { [students |-> r] : r \in { q \in Rosters : Len(q) = 2 } }
      \cup { [examMaterials |-> << "exam1" >>], [examInfo |-> "E1"] }

CarryNext ==
    \/ \E newFormData \in CarryFormChanges : handleFormChange(newFormData)
    \/ handleGenerateReport
    \/ BeginStudent
    \/ GradeCall
    \/ \E answer \in CarryGradeAnswers : GradeReturn(answer)
    \/ \E answer \in CarryFormatAnswers : FormatReturn(answer)
    \/ Finish

CarrySpec == Init /\ [][CarryNext]_vars

----------------------------------------------------------------------------
(* A batch with every kind of form edit and a criteria search interleaved.  *)
(* The form starts filled in, and every field has another value to move to. *)

RowKim ==
    [ id |-> "u1", name |-> "Kim", email |-> "kim@x", solutionFiles |-> << "sol1" >>,
      reportTemplate |-> "" ]

\* the row of u1 after handleStudentChange and handleStudentFilesChange
RowKimEdited ==
    [ id |-> "u1", name |-> "Kim2", email |-> "kim2@x",
      solutionFiles |-> << "sol1", "sol1b" >>, reportTemplate |-> "tmpl2" ]

RowKim3 ==
    [ id |-> "u3", name |-> "Kim", email |-> "kim3@x", solutionFiles |-> << "unreadable" >>,
      reportTemplate |-> "" ]

\* Rosters that differ by a removed, an added, an edited and a moved row
EditRosters == { << RowKim, RowKim3 >>, << RowKim3 >>, << RowKim3, RowKimEdited >> }

FilledForm ==
    [ examInfo |-> "E1", scoringCriteria |-> << "typed" >>, examMaterials |-> << "exam1" >>,
      students |-> << RowKim, RowKim3 >>, model |-> "gemini-2.5-flash" ]

\* The partial updates explored: a roster, the typed criteria, and the exam
\* description, model and exam documents changed together
EditChanges ==
    { [students |-> r] : r \in EditRosters }
      \cup { [scoringCriteria |-> << "typed" >>] }
      \cup { [examInfo |-> "E1", model |-> "gemini-2.5-flash", examMaterials |-> << "exam1" >>],
             [examInfo |-> "E2", model |-> "gemini-2.5-pro", examMaterials |-> << "exam2" >>] }

EditInit ==
    /\ formData = FilledForm
    /\ results = << >>
    /\ isLoading = FALSE
    /\ progress = [current |-> 0, total |-> 0]
    /\ error = "null"
    /\ pc = "idle"
    /\ studentsToProcess = << >>
    /\ commonData = [ examInfo |-> "", scoringCriteria |-> << >>,
                      model |-> "gemini-2.5-flash", examMaterials |-> << >> ]
    /\ i = 0
    /\ generationDate = 0
    /\ rawReport = Undefined
    /\ now = 0
    /\ stage = << >>
    /\ identicalRerun = FALSE
    /\ search = NoSearch
    /\ searchOutcome = NoOutcome

EditNext ==
    \/ \E newFormData \in EditChanges : handleFormChange(newFormData)
    \/ handleGenerateReport
    \/ BeginStudent
    \/ GradeCall
    \/ GradeReturn(Text(<< "report" >>))
    \/ \E answer \in { Text(<< "div" >>), Rejects("transport") } : FormatReturn(answer)
    \/ Finish
    \/ handleSearchCriteria
    \/ SearchReturn(SearchResponse(Text(<< "criteria" >>), << >>))

EditSpec == EditInit /\ [][EditNext]_vars

----------------------------------------------------------------------------
(* Batches started from the start button of the form, which is enabled only *)
(* for a valid form (InputForm.tsx:254-262 and :499).                        *)

\* s.trim() === '' for the strings of the form: '' and white space only
BlankStrings == { "", " " }

\* Mutant: the validation forgets the students' solution documents.
isFormValidIgnoringFiles(form) ==
    /\ form.examInfo \notin BlankStrings
    /\ Trim(form.scoringCriteria) # << >>
    /\ Len(form.examMaterials) > 0
    /\ Len(form.students) > 0
    /\ \A k \in 1..Len(form.students) :
          /\ form.students[k].name \notin BlankStrings
          /\ form.students[k].email \notin BlankStrings

\* InputForm.tsx:254-262, every entry of `validation` holds
isFormValid(form) ==
    /\ form.examInfo \notin BlankStrings
    /\ Trim(form.scoringCriteria) # << >>
    /\ Len(form.examMaterials) > 0
    /\ Len(form.students) > 0
    /\ \A k \in 1..Len(form.students) :
          /\ form.students[k].name \notin BlankStrings
          /\ form.students[k].email \notin BlankStrings
          /\ Len(form.students[k].solutionFiles) > 0

\* InputForm.tsx:497-499, a click on the enabled start button
onGenerate ==
    /\ isFormValid(formData)
    /\ handleGenerateReport

\* a new row as handleAddStudent makes it, and rows filled in only in part
RowNew ==
    [ id |-> "u4", name |-> "", email |-> "", solutionFiles |-> << >>, reportTemplate |-> "" ]

RowNoFiles ==
    [ id |-> "u2", name |-> "Lee", email |-> "lee@x", solutionFiles |-> << >>,
      reportTemplate |-> "tmpl" ]

RowBlankName ==
    [ id |-> "u5", name |-> " ", email |-> "x@x", solutionFiles |-> << "sol5" >>,
      reportTemplate |-> "" ]

RowBlankEmail ==
    [ id |-> "u6", name |-> "Park", email |-> " ", solutionFiles |-> << "sol6" >>,
      reportTemplate |-> "" ]

ValidationRosters ==
    { << >>, << RowKim >>, << RowKim, RowKim3 >> }
      \cup { << RowKim, r >> : r \in { RowNew, RowNoFiles, RowBlankName, RowBlankEmail } }
      \cup { << RowNoFiles >> }

ValidationChanges ==
    { [students |-> r] : r \in ValidationRosters }
      \cup { [examMaterials |-> m] : m \in MaterialSets }
      \cup { [examInfo |-> e] : e \in { "", " ", "E1" } }
      \cup { [scoringCriteria |-> c] : c \in { << >>, << "nl" >>, << "typed" >> } }

FormNext ==
    \/ \E newFormData \in ValidationChanges : handleFormChange(newFormData)
    \/ onGenerate
    \/ BatchStep

FormSpec == Init /\ [][FormNext]_vars

\* The criteria search on its own, against every answer of the service
SearchNext ==
    \/ \E e \in ExamInfos : handleFormChange([examInfo |-> e])
    \/ handleSearchCriteria
    \/ \E response \in AllSearchResponses : SearchReturn(response)

SearchSpec == Init /\ [][SearchNext]_vars

\* The criteria search next to a batch of one student
SearchBatchNext ==
    \/ \E newFormData \in StageFormChanges \cup { [examInfo |-> "E1"] } :
           handleFormChange(newFormData)
    \/ handleGenerateReport
    \/ BatchStep
    \/ handleSearchCriteria
    \/ \E response \in SearchResponses : SearchReturn(response)

SearchBatchSpec == Init /\ [][SearchBatchNext]_vars

----------------------------------------------------------------------------
(* The ledger updates of App.tsx:51, :59, :81 and :86 on their own: the updater *)
(* functions handed to setResults, applied to any ledger and any student id.    *)

SampleReport(s) ==
    [ htmlContent |-> << "div" >>, studentEmail |-> s.email, studentName |-> s.name,
      examInfo |-> "E1", generationDate |-> 0 ]

\* The records a student can have in the ledger
RecordsOf(s) ==
    { SeedRecord(s), WithNote(SeedRecord(s), "analyzing"),
      WithNote(SeedRecord(s), "formatting"), WithDone(SeedRecord(s), SampleReport(s)),
      WithError(SeedRecord(s), "transport") }

Ledgers ==
    UNION { { l \in [1..Len(r) -> UNION { RecordsOf(s) : s \in StudentPool }] :
                \A k \in 1..Len(r) : l[k].studentId = r[k].id } : r \in Rosters }

LedgerInit ==
    /\ results \in Ledgers
    /\ formData = initialFormData
    /\ isLoading = FALSE
    /\ progress = [current |-> 0, total |-> 0]
    /\ error = "null"
    /\ pc = "idle"
    /\ studentsToProcess = << >>
    /\ commonData = [ examInfo |-> "", scoringCriteria |-> << >>,
                      model |-> "gemini-2.5-flash", examMaterials |-> << >> ]
    /\ i = 0
    /\ generationDate = 0
    /\ rawReport = Undefined
    /\ now = 0
    /\ stage = << >>
    /\ identicalRerun = FALSE
    /\ search = NoSearch
    /\ searchOutcome = NoOutcome

LedgerFrame ==
    UNCHANGED << formData, isLoading, progress, error, pc, studentsToProcess, commonData,
                 i, generationDate, rawReport, now, stage, identicalRerun, search,
                 searchOutcome >>

\* setResults(prev => prev.map(r => r.studentId === id ? {...r, progressMessage} : r))
LedgerNote(id, note) ==
    /\ results' = SetNote(results, id, note)
    /\ LedgerFrame

\* setResults(prev => prev.map(r => r.studentId === id ? {...r, status: 'done', ...} : r))
LedgerDone(id, reportData) ==
    /\ results' = SetDone(results, id, reportData)
    /\ LedgerFrame

\* setResults(prev => prev.map(r => r.studentId === id ? {...r, status: 'error', ...} : r))
LedgerError(id, message) ==
    /\ results' = SetError(results, id, message)
    /\ LedgerFrame

LedgerNext ==
    \E s \in StudentPool :
        \/ \E note \in { "analyzing", "formatting" } : LedgerNote(s.id, note)
        \/ LedgerDone(s.id, SampleReport(s))
        \/ LedgerError(s.id, "transport")

LedgerSpec == LedgerInit /\ [][LedgerNext]_vars

\* Every awaited round trip eventually returns, and a synchronous segment runs on.
FairSpec == Spec /\ WF_vars(BatchStep)

----------------------------------------------------------------------------
(* Vocabulary of the properties *)

N == Len(studentsToProcess)

Terminal(r) == r.status \in { "done", "error" }

\* The five states of a record: 'loading' with its progress message, 'done', 'error'
Phase(r) ==
    CASE r.status = "done" -> "Done"
      [] r.status = "error" -> "Failed"
      [] r.progressMessage = Some("waiting") -> "Pending"
      [] r.progressMessage = Some("analyzing") -> "Analyzing"
      [] r.progressMessage = Some("formatting") -> "Formatting"
      [] OTHER -> "Unknown"

\* A batch on a non-empty roster has run to completion and none was started since.
BatchEnded == pc = "idle" /\ N > 0

\* The grade stage was invoked for roster position k and failed: in its guard
\* (no request was sent) or in the round trip (the service call rejected).
GradeFailed(k) ==
    /\ stage[k].gradeCalls > 0
    /\ \/ stage[k].gradeRequests = 0
       \/ /\ IsPresent(stage[k].gradeAnswer)
          /\ stage[k].gradeAnswer[1].kind \in { "error", "value" }

----------------------------------------------------------------------------
\* C1: for every non-empty roster, once handleGenerateReport has run to
\* completion the ledger holds exactly one record per student id of the roster
\* captured at the start, in roster order, and every record is 'done' or 'error'.
C1_LedgerCompleteAfterBatch ==
    BatchEnded =>
        /\ Len(results) = N
        /\ \A k \in 1..N :
             /\ results[k].studentId = studentsToProcess[k].id
             /\ Terminal(results[k])
        /\ \A a, b \in 1..N : a # b => results[a].studentId # results[b].studentId

\* a completed batch of two students, one done and one failed
C1_Witness ==
    /\ BatchEnded
    /\ N = 2
    /\ results[1].status = "done"
    /\ results[2].status = "error"

\* C2: if the grade stage fails for student k, the format stage is never invoked
\* for k in that batch, k's record is Failed, and the grade stage is invoked for
\* student k+1 (by the time the batch ends) whenever k is not the last entry.
C2_GradeFailureIsolated ==
    \A k \in 1..Len(stage) :
        GradeFailed(k) =>
            /\ stage[k].formatCalls = 0
            /\ stage[k].formatRequests = 0
            /\ results[k].status = "error"
            /\ (BatchEnded /\ k < N) => stage[k + 1].gradeCalls = 1

\* the service rejected the grading of the first of two students, and the batch ended
C2_Witness ==
    /\ BatchEnded
    /\ N = 2
    /\ IsPresent(stage[1].gradeAnswer)
    /\ stage[1].gradeAnswer[1].kind = "error"
    /\ stage[2].gradeCalls = 1
    /\ stage[2].gradeRequests = 1

\* C3 as stated: a student without solution documents ends Failed with the
\* validation reason, and neither gradeSolutionAndGenerateFeedback nor
\* formatReportToHtml is invoked for that student.
C3_Original_GradeNeverInvoked ==
    \A k \in 1..Len(stage) :
        Len(studentsToProcess[k].solutionFiles) = 0 =>
            /\ stage[k].gradeCalls = 0
            /\ stage[k].formatCalls = 0
            /\ BatchEnded =>
                 /\ results[k].status = "error"
                 /\ results[k].error = Some(MissingInputMessage)

\* C3 amended: a student without solution documents ends Failed with the
\* validation reason; gradeSolutionAndGenerateFeedback is invoked for that student
\* once and fails in its guard, before any document is encoded and before any
\* request is sent to the service; formatReportToHtml is never invoked for it.
C3_EmptySolutionsFailInGuard ==
    \A k \in 1..Len(stage) :
        Len(studentsToProcess[k].solutionFiles) = 0 =>
            /\ stage[k].gradeCalls <= 1
            /\ stage[k].encoded = 0
            /\ stage[k].gradeRequests = 0
            /\ stage[k].formatCalls = 0
            /\ stage[k].formatRequests = 0
            /\ stage[k].gradeCalls = 1 =>
                 /\ results[k].status = "error"
                 /\ results[k].error = Some(MissingInputMessage)
            /\ BatchEnded => stage[k].gradeCalls = 1

\* a batch with exam materials, the second student without solution documents, ended
C3_Witness ==
    /\ BatchEnded
    /\ N = 2
    /\ Len(commonData.examMaterials) > 0
    /\ Len(studentsToProcess[2].solutionFiles) = 0
    /\ results[1].status = "done"
    /\ results[2].error = Some(MissingInputMessage)

----------------------------------------------------------------------------
(* Vocabulary of the step properties *)

\* handleGenerateReport starts a new batch in this step
NewBatch == pc = "idle" /\ pc' = "loop"

InFlight(r) == Phase(r) \in { "Analyzing", "Formatting" }

Begun == { k \in 1..Len(results) : Phase(results[k]) # "Pending" }

AllTerminal == \A k \in 1..Len(results) : Terminal(results[k])

\* C4 as stated: progress.current becomes equal to total exactly when the batch
\* ends (isLoading false again, every record terminal) and not before.  Read at
\* the points where an observer can run.
C4_Original_TotalExactlyAtEnd ==
    (Yielded /\ (isLoading \/ N > 0)) =>
        /\ progress.current \in 0..progress.total
        /\ (progress.current = progress.total) <=> (~isLoading /\ AllTerminal)

C4_Counts ==
    /\ progress.current \in 0..progress.total
    /\ (isLoading \/ N > 0) =>
         /\ progress.total = N
         /\ progress.current = Cardinality(Begun)
         /\ (progress.current = progress.total) <=> (\A k \in 1..N : k \in Begun)
    /\ (Yielded /\ isLoading) => progress.current = i + 1
    /\ ~isLoading => progress.current = progress.total

C4_Step ==
    \/ progress' = progress
    \/ /\ NewBatch
       /\ progress' = [current |-> 0, total |-> Len(formData.students)]
    \/ /\ progress'.total = progress.total
       /\ progress'.current = progress.current + 1
       /\ Phase(results[progress'.current]) = "Pending"
       /\ Phase(results'[progress'.current]) = "Analyzing"

\* C4 amended: progress.current starts at 0 when a batch starts, increases by
\* exactly 1 once per roster student, in the step in which that student's record
\* leaves Pending, never skips or decreases, and always equals the number of
\* students whose processing has begun; it therefore reaches total when the last
\* student begins (still loading, that record not yet terminal) and equals total
\* whenever no batch is running.
C4_ProgressCountsBegunStudents == [] C4_Counts /\ [][C4_Step]_vars

\* the last of two students is awaiting its grading round trip: current = total
\* while the batch is still loading
C4_Witness ==
    /\ pc = "grade"
    /\ isLoading
    /\ N = 2
    /\ i = 1
    /\ progress = [current |-> 2, total |-> 2]
    /\ ~Terminal(results[2])

ForwardSteps ==
    { << "Pending", "Analyzing" >>, << "Analyzing", "Formatting" >>,
      << "Formatting", "Done" >>, << "Analyzing", "Failed" >>,
      << "Formatting", "Failed" >> }

C5_Step ==
    \/ NewBatch
    \/ /\ Len(results') = Len(results)
       /\ \A k \in 1..Len(results) :
            \/ results'[k] = results[k]
            \/ << Phase(results[k]), Phase(results'[k]) >> \in ForwardSteps

\* C5: within one batch a record only moves forward along Pending -> Analyzing ->
\* Formatting -> {Done | Failed}: Done is entered only from Formatting, Failed only
\* from Analyzing or Formatting, and a Done or Failed record is not changed at all
\* until a new batch is started.
C5_StatusMovesForward == [][C5_Step]_vars

\* a completed batch in which one record failed while Formatting
C5_Witness ==
    /\ BatchEnded
    /\ N = 2
    /\ results[1].status = "done"
    /\ results[2].status = "error"
    /\ IsPresent(stage[2].formatAnswer)
    /\ stage[2].formatAnswer[1].kind = "error"

\* C6: students are processed strictly one after the other in roster order: at
\* most one record is Analyzing or Formatting, and a record has left Pending
\* only if every record before it is terminal.
C6_StrictlySequential ==
    /\ Cardinality({ k \in 1..Len(results) : InFlight(results[k]) }) <= 1
    /\ \A a, b \in 1..Len(results) :
         (a < b /\ Phase(results[b]) # "Pending") => Terminal(results[a])

\* the second of two students is in flight, the first is terminal
C6_Witness ==
    /\ pc = "format"
    /\ N = 2
    /\ Terminal(results[1])
    /\ Phase(results[2]) = "Formatting"

\* C7: provided every awaited round trip returns, a started batch terminates:
\* every roster student is attempted (the grade stage is invoked for each), every
\* record becomes terminal and isLoading becomes false, whatever failed on the way.
C7_BatchTerminates ==
    isLoading ~> ( /\ ~isLoading
                   /\ AllTerminal
                   /\ \A k \in 1..N : stage[k].gradeCalls = 1 )

\* a batch whose first student failed in the service ran on to the end
C7_Witness ==
    /\ BatchEnded
    /\ ~isLoading
    /\ N = 2
    /\ results[1].error = Some("transport")
    /\ results[2].status = "done"

C8_Exclusive ==
    \A k \in 1..Len(results) : ~(IsPresent(results[k].data) /\ IsPresent(results[k].error))

C8_Step ==
    \/ NewBatch
    \/ /\ Len(results') = Len(results)
       /\ \A k \in 1..Len(results) :
            /\ results'[k].data # results[k].data =>
                 /\ ~IsPresent(results[k].data)
                 /\ ~Terminal(results[k])
                 /\ results'[k].status = "done"
            /\ results'[k].error # results[k].error =>
                 /\ ~IsPresent(results[k].error)
                 /\ ~Terminal(results[k])
                 /\ results'[k].status = "error"

\* C8: no record ever holds both data and error, and within one batch each of the
\* two is written at most once, in the very ledger update that moves the record
\* from 'loading' to its terminal status.
C8_ResultXorFailureWrittenOnce == [] C8_Exclusive /\ [][C8_Step]_vars

\* both kinds of write have happened in one batch
C8_Witness ==
    /\ N = 2
    /\ IsPresent(results[1].error)
    /\ IsPresent(results[2].data)

\* C9: in every state of the ledger each record is consistent: data is present
\* iff the status is 'done', error is present iff the status is 'error', and a
\* progress message is present only while the status is 'loading'.
C9_RecordsConsistent ==
    \A k \in 1..Len(results) :
        /\ IsPresent(results[k].data) <=> results[k].status = "done"
        /\ IsPresent(results[k].error) <=> results[k].status = "error"
        /\ IsPresent(results[k].progressMessage) => results[k].status = "loading"
        /\ results[k].status \in { "loading", "done", "error" }

\* an observer reads the ledger in the middle of a batch: one record done, the
\* next one being analysed
C9_Witness ==
    /\ pc = "grade"
    /\ N = 2
    /\ results[1].status = "done"
    /\ Phase(results[2]) = "Analyzing"

----------------------------------------------------------------------------
(* The ledger a batch must end with, computed from that batch alone: its roster,
   its exam context and the answers its own stage calls received *)

RECURSIVE RoundTripsBefore(_)
RoundTripsBefore(k) ==
    IF k <= 1 THEN 0
    ELSE RoundTripsBefore(k - 1) + stage[k - 1].gradeRequests + stage[k - 1].formatRequests

FailedRecord(s, message) ==
    [ studentId |-> s.id, studentName |-> s.name, status |-> "error",
      progressMessage |-> Undefined, data |-> Undefined, error |-> Some(message) ]

DoneRecord(s, html, date) ==
    [ studentId |-> s.id, studentName |-> s.name, status |-> "done",
      progressMessage |-> Undefined, error |-> Undefined,
      data |-> Some([ htmlContent |-> html, studentEmail |-> s.email,
                      studentName |-> s.name, examInfo |-> commonData.examInfo,
                      generationDate |-> date ]) ]

ExpectedRecord(k) ==
    LET s == studentsToProcess[k]
        g == stage[k].gradeAnswer
        f == stage[k].formatAnswer
    IN  IF stage[k].gradeRequests = 0 THEN FailedRecord(s, MissingInputMessage)
        ELSE IF g[1].kind \in { "error", "value" }
             THEN FailedRecord(s, CaughtMessage(Rejection(g[1])))
        ELSE IF f[1].kind \in { "error", "value" }
             THEN FailedRecord(s, CaughtMessage(Rejection(f[1])))
        ELSE IF f[1].kind = "undefined" THEN FailedRecord(s, TypeErrorMessage)
        ELSE DoneRecord(s, StripFences(f[1].text), RoundTripsBefore(k))

C10_FromThisRunOnly ==
    /\ Len(results) = N
    /\ Len(stage) = N
    /\ \A k \in 1..N : k <= i => results[k] = ExpectedRecord(k)

C10_Step ==
    NewBatch =>
        /\ Len(results') = Len(formData.students)
        /\ \A k \in 1..Len(results') :
             /\ results'[k].studentId = formData.students[k].id
             /\ Phase(results'[k]) = "Pending"
             /\ ~IsPresent(results'[k].data)
             /\ ~IsPresent(results'[k].error)
        /\ progress' = [current |-> 0, total |-> Len(formData.students)]

\* C10: starting handleGenerateReport again after a batch has completed, on the
\* same roster and context, gives a new independent ledger: the start replaces
\* the ledger by one Pending record per student with neither data nor error and
\* resets progress to (0, total), and every completed record of the run (hence
\* the final ledger) is the one determined by the roster, the exam context and
\* the stage answers of this run alone.
C10_RerunIsIndependent == [] C10_FromThisRunOnly /\ [][C10_Step]_vars

\* the second run on an identical roster and context has just been started
C10_Witness ==
    /\ identicalRerun
    /\ pc = "loop"
    /\ i = 0
    /\ N = 2
    /\ progress = [current |-> 0, total |-> 2]
    /\ \A k \in 1..N : Phase(results[k]) = "Pending"

----------------------------------------------------------------------------
\* The value the stages raised for roster position k of the running batch, as
\* the history records it: the guard's Error, the rejection of the grading or of
\* the formatting call, or the TypeError of reading an absent response text.
RaisedValue(k) ==
    LET g == stage[k].gradeAnswer
        f == stage[k].formatAnswer
    IN  IF stage[k].gradeRequests = 0 THEN Thrown(TRUE, MissingInputMessage)
        ELSE IF g[1].kind \in { "error", "value" }
             THEN Thrown(g[1].kind = "error", g[1].message)
        ELSE IF f[1].kind \in { "error", "value" }
             THEN Thrown(f[1].kind = "error", f[1].message)
        ELSE Thrown(TRUE, TypeErrorMessage)

\* C11 as stated: whenever a record is Failed, its failure reason is the reason
\* string carried by the raised value, unmodified, whatever kind of value the
\* stage raised.
C11_Original_ReasonAlwaysVerbatim ==
    \A k \in 1..Len(results) :
        results[k].status = "error" => results[k].error = Some(RaisedValue(k).message)

\* C11 (amended): whenever a record is Failed because a stage raised an Error,
\* its failure reason is that Error's message, unmodified; when the raised value
\* is not an Error, the failure reason is the fixed fallback text and the
\* reason the value carried is dropped.
C11_ReasonVerbatimForErrorsOnly ==
    \A k \in 1..Len(results) :
        results[k].status = "error" =>
            /\ RaisedValue(k).isError => results[k].error = Some(RaisedValue(k).message)
            /\ ~RaisedValue(k).isError => results[k].error = Some(UnknownErrorMessage)

\* the formatting call rejected with a value that is not an Error
C11_Witness ==
    /\ Len(results) = 1
    /\ results[1].status = "error"
    /\ stage[1].formatAnswer = Some(RejectsWith("quota"))
    /\ results[1].error = Some(UnknownErrorMessage)

----------------------------------------------------------------------------
\* A stage raised while roster position k was being processed.
StageRaised(k) ==
    /\ stage[k].gradeCalls > 0
    /\ \/ stage[k].gradeRequests = 0
       \/ /\ IsPresent(stage[k].gradeAnswer)
          /\ stage[k].gradeAnswer[1].kind \in { "error", "value" }
       \/ /\ IsPresent(stage[k].formatAnswer)
          /\ stage[k].formatAnswer[1].kind \in { "error", "value", "undefined" }

\* C12: no per-student error escapes the batch.  A record is Failed exactly when
\* a stage raised while its own student was being processed, the batch-level
\* error indicator is never set, and isLoading is false only in states where
\* every record of the ledger is terminal.
C12_NoErrorEscapesTheBatch ==
    /\ error = "null"
    /\ \A k \in 1..Len(results) : results[k].status = "error" <=> StageRaised(k)
    /\ ~isLoading => AllTerminal

\* a batch that ended after both students failed, each for its own reason
C12_Witness ==
    /\ BatchEnded
    /\ ~isLoading
    /\ N = 2
    /\ results[1].error = Some("transport")
    /\ results[2].error = Some(MissingInputMessage)
    /\ error = "null"

----------------------------------------------------------------------------
\* C13: no retry.  Within one batch the grading stage and the formatting stage
\* are each invoked at most once per student and send at most one request each;
\* once a stage has raised for a student, the loop has moved past that student.
C13_NoRetry ==
    \A k \in 1..Len(stage) :
        /\ stage[k].gradeCalls <= 1
        /\ stage[k].gradeRequests <= 1
        /\ stage[k].formatCalls <= 1
        /\ stage[k].formatRequests <= 1
        /\ StageRaised(k) => i >= k

\* a finished batch in which the formatting of the first student and the grading
\* of the second were rejected, each after a single invocation
C13_Witness ==
    /\ BatchEnded
    /\ N = 2
    /\ stage[1].gradeCalls = 1
    /\ stage[1].formatCalls = 1
    /\ stage[1].formatAnswer = Some(Rejects("transport"))
    /\ stage[2].gradeCalls = 1
    /\ stage[2].gradeAnswer = Some(Rejects("transport"))
    /\ stage[2].formatCalls = 0

----------------------------------------------------------------------------
\* C14: a grading call made with no exam document or no solution document fails
\* with the missing-required-input reason before any document is encoded and
\* before any request is sent; so a batch whose shared exam documents are empty
\* ends with every student Failed with that reason and without a single request
\* to the external service.
C14_GuardFailsBeforeEncodingAndRequest ==
    /\ \A k \in 1..Len(stage) :
          (stage[k].gradeCalls > 0 /\ MissingRequiredInput(commonData, studentsToProcess[k])) =>
              /\ stage[k].encoded = 0
              /\ stage[k].gradeParts = << >>
              /\ stage[k].gradeRequests = 0
              /\ stage[k].formatRequests = 0
              /\ results[k].status = "error"
              /\ results[k].error = Some(MissingInputMessage)
    /\ (BatchEnded /\ commonData.examMaterials = << >>) =>
          /\ now = 0
          /\ \A k \in 1..N :
                /\ results[k].status = "error"
                /\ results[k].error = Some(MissingInputMessage)
                /\ stage[k].gradeRequests = 0
                /\ stage[k].formatRequests = 0

\* a finished batch of two students without exam documents; the first student
\* did hand in a solution document
C14_Witness ==
    /\ BatchEnded
    /\ N = 2
    /\ commonData.examMaterials = << >>
    /\ studentsToProcess[1].solutionFiles # << >>
    /\ results[1].error = Some(MissingInputMessage)
    /\ results[2].error = Some(MissingInputMessage)
    /\ now = 0

----------------------------------------------------------------------------
\* A document of roster position k that FileReader cannot read.
HasUnreadableDocument(k) ==
    \E n \in 1..Len(studentsToProcess[k].solutionFiles) :
        studentsToProcess[k].solutionFiles[n] = "unreadable"

\* C15: when a document handle cannot be read, the encoding fails, the owning
\* student's record ends Failed and no request carrying an empty payload is
\* sent for that student.
C15_UnreadableDocumentFailsTheStudent ==
    \A k \in 1..Len(stage) :
        (stage[k].gradeCalls > 0 /\ HasUnreadableDocument(k)) =>
            /\ results[k].status = "error"
            /\ stage[k].gradeRequests = 0
            /\ \A n \in 1..Len(stage[k].gradeParts) : stage[k].gradeParts[n].data # ""

----------------------------------------------------------------------------
----------------------------------------------------------------------------
\* The last criteria search was answered, and this is the answer.
Searched == IsPresent(searchOutcome.response)

LastResponse == searchOutcome.response[1]

\* The answer carries no criteria text: the call rejected, response.text is
\* missing, or it is empty or white space only.
EmptyResponse(response) ==
    \/ response.answer.kind # "text"
    \/ Trim(response.answer.text) = << >>

\* C17: searchScoringCriteria fails whenever the external call fails or the
\* service returns a missing or blank response text, and it never returns an
\* empty criteria text as a successful result.
C17_EmptyResponseFailsTheSearch ==
    Searched =>
        /\ EmptyResponse(LastResponse) => searchOutcome.kind = "threw"
        /\ searchOutcome.kind = "returned" => searchOutcome.text # << >>

----------------------------------------------------------------------------
\* C18: when the answer to a criteria search carries at least one source URI,
\* the returned text is the trimmed response text followed by the references
\* heading and each distinct URI exactly once, in the order of its first
\* occurrence among the chunks; when it carries none (no chunk, or only chunks
\* without a URI), the returned text is the trimmed response text alone.
C18_ReferencesListDistinctUrisInOrder ==
    (Searched /\ searchOutcome.kind = "returned") =>
        LET chunks == LastResponse.chunks
            body == Trim(LastResponse.answer.text)
            text == searchOutcome.text
            carried == { chunks[n] : n \in 1..Len(chunks) } \ { "" }
            FirstAt(u) == CHOOSE n \in 1..Len(chunks) :
                              chunks[n] = u /\ \A m \in 1..(n - 1) : chunks[m] # u
            refs == SubSeq(text, Len(body) + 1, Len(text))
        IN  /\ SubSeq(text, 1, Len(body)) = body
            /\ IF carried = {} THEN refs = << >>
               ELSE /\ refs[1] = "references"
                    /\ Len(refs) = 1 + Cardinality(carried)
                    /\ { refs[n] : n \in 2..Len(refs) } = carried
                    /\ \A a, b \in 2..Len(refs) :
                          a < b => FirstAt(refs[a]) < FirstAt(refs[b])

\* an answer whose chunks repeat a URI: it is listed once, where it first came
C18_Witness ==
    /\ Searched
    /\ LastResponse.answer = Text(<< "nl", "criteria", "nl" >>)
    /\ LastResponse.chunks = << "uriB", "uriA", "uriB" >>
    /\ searchOutcome.text = << "criteria", "references", "uriB", "uriA" >>
    /\ formData.scoringCriteria = searchOutcome.text

----------------------------------------------------------------------------
\* The step in which an awaited criteria search ends in failure.
SearchFails ==
    /\ search.pc = "await"
    /\ search'.pc = "idle"
    /\ searchOutcome'.kind = "threw"

\* C19: a failed criteria search is surfaced to the caller (the alert) and is
\* never recorded in the ledger: the step in which it fails leaves the ledger,
\* the progress, the batch-level state and the form's criteria text as they
\* were, and leaves the search control enabled again.
C19_FailedSearchChangesNothing ==
    [][ SearchFails =>
          /\ searchOutcome'.message # ""
          /\ UNCHANGED << results, progress, isLoading, error, pc, i, stage >>
          /\ formData'.scoringCriteria = formData.scoringCriteria
          /\ ~search'.buttonDisabled
          /\ ~search'.isSearching ]_vars

\* a search has failed while a batch is in flight and the form holds the
\* criteria of an earlier successful search
C19_Witness ==
    /\ searchOutcome.kind = "threw"
    /\ searchOutcome.message = SearchAlert(Thrown(TRUE, "transport"))
    /\ search.pc = "idle"
    /\ ~search.buttonDisabled
    /\ formData.scoringCriteria = << "criteria" >>
    /\ isLoading
    /\ pc = "format"
    /\ Len(results) = 1
    /\ error = "null"

----------------------------------------------------------------------------
\* C20: for every text the formatting call can answer with, the rendered
\* content of the Done record neither begins nor ends with a fence (language
\* tag or not, white space around the fences or not), and a text without any
\* fence is stored unchanged apart from trimming.
C20_AllWrappingFencesRemoved ==
    \A k \in 1..Len(results) :
        results[k].status = "done" =>
            LET html == results[k].data[1].htmlContent
                text == stage[k].formatAnswer[1].text
            IN  /\ html # << >> => (html[1] # "fence" /\ html[Len(html)] # "fence")
                /\ (\A n \in 1..Len(text) : text[n] # "fence") => html = Trim(text)

----------------------------------------------------------------------------
\* App.tsx:126, formData.students[progress.current - 1]?.name || ''
currentProcessingStudentName ==
    IF progress.current >= 1 /\ progress.current <= Len(formData.students)
    THEN formData.students[progress.current].name
    ELSE ""

\* C21: wherever an observer can run, currentProcessingStudentName is the name
\* of the student whose record is in flight (Analyzing or Formatting) in the
\* running batch, and it is empty whenever no batch is running.
C21_ActiveNameIsInFlightStudent ==
    Yielded =>
        /\ \A k \in 1..Len(results) :
              (isLoading /\ InFlight(results[k])) =>
                  currentProcessingStudentName = results[k].studentName
        /\ ~isLoading => currentProcessingStudentName = ""

----------------------------------------------------------------------------
\* The clock when the formatting call of roster position k returned.
FormatReturnedAt(k) ==
    RoundTripsBefore(k) + stage[k].gradeRequests + stage[k].formatRequests

\* C22 as stated: the generation timestamp of a Done record is read when the
\* result is assembled, after the student's formatting call has returned.
C22_Original_TimestampReadAtAssembly ==
    \A k \in 1..Len(results) :
        results[k].status = "done" =>
            results[k].data[1].generationDate = FormatReturnedAt(k)

\* C22 (amended): the generation timestamp of a Done record is the clock
\* reading taken when the student's processing began, before the grading
\* request was sent; both round trips of the student lie between that reading
\* and the assembly of the result.
C22_TimestampReadBeforeGrading ==
    \A k \in 1..Len(results) :
        results[k].status = "done" =>
            /\ results[k].data[1].generationDate = RoundTripsBefore(k)
            /\ results[k].data[1].generationDate + 2 = FormatReturnedAt(k)

\* two students done: the second one's timestamp is the clock after the two
\* round trips of the first, not after its own
C22_Witness ==
    /\ BatchEnded
    /\ N = 2
    /\ results[1].status = "done"
    /\ results[2].status = "done"
    /\ results[1].data[1].generationDate = 0
    /\ results[2].data[1].generationDate = 2
    /\ now = 4

----------------------------------------------------------------------------
\* A step of handleGenerateReport: the only steps that write batch state.
BatchWrites == batchVars' # batchVars

\* C23: no step of handleGenerateReport, from the start of a batch to its end
\* and on success and failure paths alike, changes the form: the roster with
\* its documents, names, contacts and instructions, and the exam description,
\* scoring criteria, model and exam materials stay as the caller left them.
C23_BatchNeverWritesTheForm ==
    [][ BatchWrites => formData' = formData ]_vars

\* a batch has run to its end, one student done and one failed, and the form
\* still holds the roster and the exam documents the batch was started on
C23_Witness ==
    /\ BatchEnded
    /\ N = 2
    /\ results[1].status = "done"
    /\ results[2].status = "error"
    /\ formData.students = studentsToProcess
    /\ formData.examMaterials = << "exam1" >>
    /\ formData.examInfo = commonData.examInfo

----------------------------------------------------------------------------
\* What the grading call of roster position k returned to the orchestrator.
GradeReturned(k) ==
    IF stage[k].gradeAnswer[1].kind = "text" THEN Some(stage[k].gradeAnswer[1].text)
    ELSE Undefined

\* C24: for every student the formatting stage is called with exactly what the
\* grading stage returned for that student in this batch, and a Done record
\* holds what the formatting stage returned for that student together with
\* that student's own id, name and contact and the exam description the batch
\* was started with.
C24_NoMixingBetweenStudents ==
    \A k \in 1..Len(stage) :
        /\ stage[k].formatCalls > 0 => stage[k].formatInput = Some(GradeReturned(k))
        /\ results[k].status = "done" =>
              /\ results[k].studentId = studentsToProcess[k].id
              /\ results[k].studentName = studentsToProcess[k].name
              /\ results[k].data[1].htmlContent = StripFences(stage[k].formatAnswer[1].text)
              /\ results[k].data[1].studentName = studentsToProcess[k].name
              /\ results[k].data[1].studentEmail = studentsToProcess[k].email
              /\ results[k].data[1].examInfo = commonData.examInfo

\* two students of the same name done; the service answered their calls with
\* different texts
C24_Witness ==
    /\ BatchEnded
    /\ N = 2
    /\ studentsToProcess[1].name = studentsToProcess[2].name
    /\ stage[1].formatInput = Some(Some(<< "report" >>))
    /\ stage[2].formatInput = Some(Some(<< "report2" >>))
    /\ results[1].status = "done"
    /\ results[2].status = "done"
    /\ results[1].data[1].htmlContent = << "div2" >>
    /\ results[2].data[1].htmlContent = << "div" >>
    /\ results[1].data[1].studentEmail # results[2].data[1].studentEmail

----------------------------------------------------------------------------
\* The step that starts a batch, as the ledger and the loading flag show it.
BatchStarts == ~isLoading /\ isLoading'

C25_Step ==
    /\ pc # "idle" => isLoading
    /\ BatchStarts =>
          /\ pc = "idle"
          /\ \A k \in 1..Len(results) : Terminal(results[k])
    /\ (results' # results /\ ~BatchStarts) =>
          /\ pc # "idle"
          /\ Len(results') = Len(results)
          /\ \A k \in 1..Len(results) :
                /\ results'[k].studentId = results[k].studentId
                /\ results'[k] # results[k] => results[k].studentId = studentsToProcess[i + 1].id

\* C25: at most one batch is in flight.  While a batch is in flight isLoading
\* is true, so the start control is disabled; a batch starts only when none is
\* in flight and every record of the ledger is terminal; between the start of
\* a batch and its end the ledger is never re-seeded, and every ledger update
\* is one of the running batch for its current student.
C25_AtMostOneBatchInFlight ==
    [][ C25_Step ]_vars

\* a second batch in flight, its first student being formatted, the start
\* control disabled
C25_Witness ==
    /\ identicalRerun
    /\ isLoading
    /\ ~StartControlEnabled
    /\ pc = "format"
    /\ N = 2
    /\ InFlight(results[1])
    /\ Phase(results[2]) = "Pending"

----------------------------------------------------------------------------
\* The exam context of a form
ContextOf(form) ==
    [ examInfo |-> form.examInfo, scoringCriteria |-> form.scoringCriteria,
      model |-> form.model, examMaterials |-> form.examMaterials ]

IdsOf(ledger) == [ k \in 1..Len(ledger) |-> ledger[k].studentId ]

\* The arguments of the stage calls made so far are built from the roster and
\* the context the batch holds.
CallsUseCaptured ==
    \A k \in 1..Len(stage) :
        /\ IsPresent(stage[k].gradeArgs) =>
              /\ stage[k].gradeArgs[1].common = commonData
              /\ stage[k].gradeArgs[1].studentData.name = studentsToProcess[k].name
              /\ stage[k].gradeArgs[1].studentData.solutionFiles =
                     studentsToProcess[k].solutionFiles
              /\ stage[k].gradeArgs[1].studentData.reportTemplate =
                     studentsToProcess[k].reportTemplate
              /\ stage[k].gradeRequests > 0 =>
                     stage[k].gradeParts = InlineParts(commonData.examMaterials)
                                             \o InlineParts(studentsToProcess[k].solutionFiles)
        /\ IsPresent(stage[k].formatArgs) =>
              /\ stage[k].formatArgs[1].context.examInfo = commonData.examInfo
              /\ stage[k].formatArgs[1].context.model = commonData.model
              /\ stage[k].formatArgs[1].studentName = studentsToProcess[k].name

C26_Step ==
    /\ BatchStarts =>
          /\ studentsToProcess' = formData.students
          /\ commonData' = ContextOf(formData)
          /\ progress'.total = Len(formData.students)
          /\ IdsOf(results') = [ k \in 1..Len(formData.students) |-> formData.students[k].id ]
    /\ ~BatchStarts =>
          /\ studentsToProcess' = studentsToProcess
          /\ commonData' = commonData
          /\ progress'.total = progress.total
          /\ IdsOf(results') = IdsOf(results)
    /\ CallsUseCaptured'

\* C26: a batch captures the roster and the exam context of the form in the
\* step that starts it; no later step (a form edit of any field, a criteria
\* search completing, a step of the batch) changes the captured roster and
\* context, the progress total or the number and ids of the ledger's records,
\* and every stage call is made with arguments built from the captured values.
C26_BatchWorksOnCapturedInputs ==
    [][ C26_Step ]_vars

\* mid-batch, with the second student's grading awaited: the form's roster,
\* exam context and criteria (by a search that completed) all differ from
\* what the batch captured and passed to the call
C26_Witness ==
    /\ pc = "grade"
    /\ i = 1
    /\ studentsToProcess = << RowKim, RowKim3 >>
    /\ formData.students = << RowKim3, RowKimEdited >>
    /\ commonData.examInfo = "E1"
    /\ formData.examInfo = "E2"
    /\ commonData.scoringCriteria = << "typed" >>
    /\ formData.scoringCriteria = << "criteria" >>
    /\ searchOutcome.kind = "returned"
    /\ stage[2].gradeArgs[1].common = commonData
    /\ stage[2].gradeArgs[1].studentData.solutionFiles = << "unreadable" >>
    /\ progress.total = 2

----------------------------------------------------------------------------
\* The roster and exam context the running (or last) batch captured, as a form
CapturedForm ==
    [ examInfo |-> commonData.examInfo, scoringCriteria |-> commonData.scoringCriteria,
      examMaterials |-> commonData.examMaterials, students |-> studentsToProcess,
      model |-> commonData.model ]

\* A batch was started at some point.
Started == isLoading \/ Len(stage) > 0

\* C27: a batch started from the form's start button works on a valid form:
\* exam description and scoring criteria non-blank, exam documents present, a
\* non-empty roster whose students each have a non-blank name, a non-blank
\* contact and at least one solution document; so the grading guard never
\* fails and no record ends Failed with the missing-required-input reason.
C27_FormStartedBatchPassesTheGuard ==
    Started =>
        /\ isFormValid(CapturedForm)
        /\ \A k \in 1..Len(stage) :
              /\ ~MissingRequiredInput(commonData, studentsToProcess[k])
              /\ stage[k].gradeCalls > 0 => stage[k].gradeRequests > 0
              /\ results[k].error # Some(MissingInputMessage)

\* a batch started from the button has ended, one student done and one failed
\* in the service call; by now the form has been edited into an invalid one
C27_Witness ==
    /\ BatchEnded
    /\ N = 2
    /\ results[1].status = "done"
    /\ results[2].error = Some("transport")
    /\ stage[2].gradeRequests = 1
    /\ ~isFormValid(formData)

====
